---------------------------- MODULE Spec2Model ----------------------------
(***************************************************************************)
(* Model of src/pygments-dark.py: the class body of DarkStyle.  Executing  *)
(* the class body binds three scalar attributes and evaluates one dict     *)
(* display of 28 key: value items.  Python evaluates the items of a dict   *)
(* display left to right and stores each one into the dict under           *)
(* construction, so a key written twice keeps the value of its last item.  *)
(* Once the class body has run the class only offers attribute and         *)
(* subscript reads.                                                        *)
(***************************************************************************)
EXTENDS Integers, Sequences, FiniteSets, TLC

VARIABLES
    pc,                \* the statement of the class body that runs next
    background_color,  \* class attribute, line 32
    highlight_color,   \* class attribute, line 33
    default_style,     \* class attribute, line 34
    styles,            \* the dict of the display of lines 36-72
    idx,               \* number of items of the display stored so far
    log,               \* the reads made of the loaded class, oldest first
    serialized,        \* a consumer's list of (key, spec) declarations
    reloaded,          \* the dict a consumer rebuilt from `serialized`
    trips              \* number of completed serialize-and-reload trips

vars == <<pc, background_color, highlight_color, default_style, styles, idx,
          log, serialized, reloaded, trips>>

\* Bounds of the model.
MaxReads == 3
MaxTrips == 2

-----------------------------------------------------------------------------
\* Python values held by attributes and returned by reads.
PyNone == [type |-> "NoneType"]
PyStr(s) == [type |-> "str", value |-> s]
Unbound == [type |-> "unbound"]
KeyError == [type |-> "KeyError"]

\* A dict: its keys in insertion order, and the value of each key.
EmptyDict == [order |-> <<>>, map |-> <<>>]

HasKey(d, k) == k \in DOMAIN d.map

\* d[k] = v keeping the first value of a key already present (setdefault).
DictStore_KeepFirst(d, k, v) ==
    IF HasKey(d, k) THEN d
    ELSE [order |-> Append(d.order, k),
          map |-> [x \in DOMAIN d.map \cup {k} |-> IF x = k THEN v ELSE d.map[x]]]

\* d[k] = v that stores the value but never records a new key in the order.
DictStore_NoOrder(d, k, v) ==
    [order |-> d.order,
     map |-> [x \in DOMAIN d.map \cup {k} |-> IF x = k THEN v ELSE d.map[x]]]

\* d[k] = v: a new key goes to the end of the insertion order, a key already
\* present keeps its place and takes the new value.
DictStore(d, k, v) ==
    [order |-> IF HasKey(d, k) THEN d.order ELSE Append(d.order, k),
     map |-> [x \in DOMAIN d.map \cup {k} |-> IF x = k THEN v ELSE d.map[x]]]

\* d[k]: the value, or KeyError for a key that is absent.
Getitem(d, k) == IF HasKey(d, k) THEN PyStr(d.map[k]) ELSE KeyError

\* d without the key k.
DictDelete(d, k) ==
    [order |-> SelectSeq(d.order, LAMBDA x : x # k),
     map |-> [x \in DOMAIN d.map \ {k} |-> d.map[x]]]

\* The items of d as a list of (key, spec) declarations, in insertion order.
Serialize(d) == [i \in 1..Len(d.order) |-> <<d.order[i], d.map[d.order[i]]>>]

\* The dict built by assigning the declarations of a list in order.
RECURSIVE ReloadFrom(_, _)
ReloadFrom(d, items) ==
    IF items = <<>> THEN d
    ELSE ReloadFrom(DictStore(d, Head(items)[1], Head(items)[2]), Tail(items))

Reload(items) == ReloadFrom(EmptyDict, items)

\* No list written, or a list written and not yet reloaded.
NoList == [pending |-> FALSE, items |-> <<>>]

-----------------------------------------------------------------------------
\* The items of the display, section by section, in source order.
CppSection ==
    << <<"Comment",             "#686e78">>,
       <<"Comment.Preproc",     "#c67ada">>,
       <<"Comment.PreprocFile", "#83a76e">>,
       <<"Keyword",             "#c67ada">>,
       <<"Name",                "#9daaaa">>,
       <<"Name.Class",          "#dbba75">>,
       <<"Name.Builtin",        "#dbba75">>,
       <<"Name.Function",       "#61afef">>,
       <<"Name.Namespace",      "#00997b">>,
       <<"String",              "#83a76e">>,
       <<"String.Char",         "#83a76e">>,
       <<"String.Escape",       "#83a76e">>,
       <<"String.Interpol",     "#83a76e">>,
       <<"Number",              "#d29767">>,
       <<"Operator",            "#9daaaa">>,
       <<"Punctuation",         "#9daaaa">> >>

CMakeSection ==
    << <<"Name.Builtin",        "#dbba75">>,
       <<"Name.Variable",       "#9daaaa">> >>

ReSTSection ==
    << <<"Name.Tag",            "bold #dcdcdc">>,
       <<"Name.Attribute",      "bold #dcdcdc">>,
       <<"Name.Class",          "bold #dcdcdc">>,
       <<"Operator.Word",       "bold #dcdcdc">>,
       <<"Generic.Heading",     "bold #ffffff">>,
       <<"Generic.Emph",        "italic #e6e6e6">>,
       <<"Generic.Strong",      "bold #e6e6e6">> >>

DiffsSection ==
    << <<"Generic.Subheading",  "#5b9dd9">>,
       <<"Generic.Inserted",    "#3bd267">>,
       <<"Generic.Deleted",     "#cd3431">> >>

\* The display with the color of Name.Tag written before its modifier.
Declarations_ColorFirst ==
    CppSection \o CMakeSection
        \o [ReSTSection EXCEPT ![1] = <<"Name.Tag", "#dcdcdc bold">>]
        \o DiffsSection

\* The display with Generic.Strong left as a bare modifier.
Declarations_BareModifier ==
    CppSection \o CMakeSection
        \o [ReSTSection EXCEPT ![7] = <<"Generic.Strong", "bold">>]
        \o DiffsSection

\* The display with the CMake item of Name.Builtin given another color.
Declarations_BuiltinDiffers ==
    CppSection
        \o [CMakeSection EXCEPT ![1] = <<"Name.Builtin", "#9daaaa">>]
        \o ReSTSection \o DiffsSection

Declarations == CppSection \o CMakeSection \o ReSTSection \o DiffsSection

ItemKey(i) == Declarations[i][1]
ItemSpec(i) == Declarations[i][2]

\* The values the three scalar assignments of the class body bind.
BackgroundColorLiteral_White == PyStr("#ffffff")
BackgroundColorLiteral == PyNone

HighlightColorLiteral_PygmentsDefault == PyStr("#ffffcc")
HighlightColorLiteral == PyStr("#34424d")

DefaultStyleLiteral_Default == PyStr("default")
DefaultStyleLiteral == PyStr("")

\* The token categories imported by lines 27-29 that are read in the model:
\* the twice-declared keys, the keys the comments of lines 49-50 relate, a
\* styled key with a modifier, and two categories the display never names.
ReadKeys ==
    {"Name.Class", "Name.Builtin", "Comment", "String.Char", "String.Escape",
     "String.Interpol", "Generic.Emph", "Text", "Generic"}

Attributes == {"background_color", "highlight_color", "default_style"}

-----------------------------------------------------------------------------
Init ==
    /\ pc = "background_color"
    /\ background_color = Unbound
    /\ highlight_color = Unbound
    /\ default_style = Unbound
    /\ styles = EmptyDict
    /\ idx = 0
    /\ log = <<>>
    /\ serialized = NoList
    /\ reloaded = EmptyDict
    /\ trips = 0

\* line 32
AssignBackgroundColor ==
    /\ pc = "background_color"
    /\ background_color' = BackgroundColorLiteral
    /\ pc' = "highlight_color"
    /\ UNCHANGED <<highlight_color, default_style, styles, idx, log,
                   serialized, reloaded, trips>>

\* line 33
AssignHighlightColor ==
    /\ pc = "highlight_color"
    /\ highlight_color' = HighlightColorLiteral
    /\ pc' = "default_style"
    /\ UNCHANGED <<background_color, default_style, styles, idx, log,
                   serialized, reloaded, trips>>

\* line 34
AssignDefaultStyle ==
    /\ pc = "default_style"
    /\ default_style' = DefaultStyleLiteral
    /\ pc' = "styles"
    /\ UNCHANGED <<background_color, highlight_color, styles, idx, log,
                   serialized, reloaded, trips>>

\* lines 38-71: the next item of the display is stored into the dict.
StoreItem ==
    /\ pc = "styles"
    /\ idx < Len(Declarations)
    /\ styles' = DictStore(styles, ItemKey(idx + 1), ItemSpec(idx + 1))
    /\ idx' = idx + 1
    /\ UNCHANGED <<pc, background_color, highlight_color, default_style, log,
                   serialized, reloaded, trips>>

\* line 72: the display is complete and bound to `styles`; the class exists.
BindStyles ==
    /\ pc = "styles"
    /\ idx = Len(Declarations)
    /\ pc' = "loaded"
    /\ UNCHANGED <<background_color, highlight_color, default_style, styles,
                   idx, log, serialized, reloaded, trips>>

\* DarkStyle.styles.pop(k): a read that also removes the key it read.
ReadStyle_Pop(k) ==
    /\ pc = "loaded"
    /\ Len(log) < MaxReads
    /\ log' = Append(log, <<k, Getitem(styles, k)>>)
    /\ styles' = DictDelete(styles, k)
    /\ UNCHANGED <<pc, background_color, highlight_color, default_style, idx,
                   serialized, reloaded, trips>>

\* DarkStyle.styles[k], for a token category k.
ReadStyle(k) ==
    /\ pc = "loaded"
    /\ Len(log) < MaxReads
    /\ log' = Append(log, <<k, Getitem(styles, k)>>)
    /\ UNCHANGED <<pc, background_color, highlight_color, default_style,
                   styles, idx, serialized, reloaded, trips>>

Getattr(a) ==
    CASE a = "background_color" -> background_color
      [] a = "highlight_color" -> highlight_color
      [] a = "default_style" -> default_style

\* DarkStyle.background_color, .highlight_color or .default_style.
ReadAttribute(a) ==
    /\ pc = "loaded"
    /\ Len(log) < MaxReads
    /\ log' = Append(log, <<a, Getattr(a)>>)
    /\ UNCHANGED <<pc, background_color, highlight_color, default_style,
                   styles, idx, serialized, reloaded, trips>>

\* The mapping a consumer holds: the class's dict, or its latest reload.
Effective == IF trips = 0 THEN styles ELSE reloaded

\* A consumer writes the effective mapping out as a list of declarations.
SerializeStep ==
    /\ pc = "loaded"
    /\ trips < MaxTrips
    /\ ~serialized.pending
    /\ serialized' = [pending |-> TRUE, items |-> Serialize(Effective)]
    /\ UNCHANGED <<pc, background_color, highlight_color, default_style,
                   styles, idx, log, reloaded, trips>>

\* The consumer rebuilds a mapping from the list it wrote.
ReloadStep ==
    /\ pc = "loaded"
    /\ serialized.pending
    /\ reloaded' = Reload(serialized.items)
    /\ serialized' = NoList
    /\ trips' = trips + 1
    /\ UNCHANGED <<pc, background_color, highlight_color, default_style,
                   styles, idx, log>>

Next ==
    \/ AssignBackgroundColor
    \/ AssignHighlightColor
    \/ AssignDefaultStyle
    \/ StoreItem
    \/ BindStyles
    \/ \E k \in ReadKeys : ReadStyle(k)
    \/ \E a \in Attributes : ReadAttribute(a)
    \/ SerializeStep
    \/ ReloadStep

Spec == Init /\ [][Next]_vars

-----------------------------------------------------------------------------
\* The style-spec grammar: words separated by whitespace, each a modifier,
\* the last one optionally a color.
IsSpace(c) == c \in {" ", "\t", "\n", "\r", "\f"}

RECURSIVE SkipSpaces(_)
SkipSpaces(s) ==
    IF s = "" THEN ""
    ELSE IF IsSpace(Head(s)) THEN SkipSpaces(Tail(s)) ELSE s

RECURSIVE TakeWord(_)
TakeWord(s) ==
    IF s = "" THEN ""
    ELSE IF IsSpace(Head(s)) THEN "" ELSE Head(s) \o TakeWord(Tail(s))

RECURSIVE Split(_)
Split(s) ==
    LET t == SkipSpaces(s) IN
    IF t = "" THEN <<>>
    ELSE LET w == TakeWord(t) IN <<w>> \o Split(SubSeq(t, Len(w) + 1, Len(t)))

HexDigits ==
    {"0", "1", "2", "3", "4", "5", "6", "7", "8", "9",
     "a", "b", "c", "d", "e", "f", "A", "B", "C", "D", "E", "F"}

IsModifier(w) == w \in {"bold", "italic"}

IsColor(w) ==
    /\ Len(w) = 7
    /\ SubSeq(w, 1, 1) = "#"
    /\ \A i \in 2..7 : SubSeq(w, i, i) \in HexDigits

MatchesGrammar(s) ==
    LET ws == Split(s)
        n == Len(ws)
    IN  \/ \A i \in 1..n : IsModifier(ws[i])
        \/ /\ n >= 1
           /\ IsColor(ws[n])
           /\ \A i \in 1..(n - 1) : IsModifier(ws[i])

HasColor(s) ==
    LET ws == Split(s) IN Len(ws) >= 1 /\ IsColor(ws[Len(ws)])

\* The declared style-specs that match the grammar, and those with a color.
WellFormedSpecs ==
    {ItemSpec(i) : i \in {j \in 1..Len(Declarations) : MatchesGrammar(ItemSpec(j))}}
ColoredSpecs ==
    {ItemSpec(i) : i \in {j \in 1..Len(Declarations) : HasColor(ItemSpec(j))}}
TwoWordSpecs ==
    {ItemSpec(i) : i \in {j \in 1..Len(Declarations) : Len(Split(ItemSpec(j))) = 2}}

\* Where the display declares the key k, and its last declaration.
Positions(k) == {i \in 1..Len(Declarations) : ItemKey(i) = k}
LastPosition(k) == CHOOSE i \in Positions(k) : \A j \in Positions(k) : j <= i
DeclaredKeys == {ItemKey(i) : i \in 1..Len(Declarations)}
DuplicatedKeys == {k \in DeclaredKeys : Cardinality(Positions(k)) > 1}

Loaded == pc = "loaded"
WasRead(name, value) == \E i \in 1..Len(log) : log[i][1] = name /\ log[i][2] = value

-----------------------------------------------------------------------------
\* C1: once the class is loaded, every key the display declares more than
\* once holds the value of its last declaration; Name.Builtin holds
\* '#dbba75' and Name.Class holds 'bold #dcdcdc'.
C1_LastWriteWins ==
    Loaded =>
        /\ \A k \in DuplicatedKeys :
              HasKey(styles, k) /\ styles.map[k] = ItemSpec(LastPosition(k))
        /\ Getitem(styles, "Name.Builtin") = PyStr("#dbba75")
        /\ Getitem(styles, "Name.Class") = PyStr("bold #dcdcdc")

C1_Witness ==
    /\ Loaded
    /\ DuplicatedKeys # {}
    /\ WasRead("Name.Class", PyStr("bold #dcdcdc"))
    /\ WasRead("Name.Builtin", PyStr("#dbba75"))

\* C2: every style-spec the display has declared so far, overridden or not,
\* is a run of the modifiers bold and italic followed by at most one color
\* '#' plus six hexadecimal digits, and so is every value the dict holds.
C2_Grammar ==
    /\ \A i \in 1..idx : ItemSpec(i) \in WellFormedSpecs
    /\ \A k \in DOMAIN styles.map : styles.map[k] \in WellFormedSpecs

C2_Witness ==
    /\ Loaded
    /\ idx = Len(Declarations)
    /\ \E i \in 1..idx : ItemSpec(i) \in TwoWordSpecs
    /\ \E i \in 1..idx : ItemSpec(i) \notin TwoWordSpecs

C4_ReadOnly ==
    /\ [][Loaded => /\ Loaded'
                    /\ UNCHANGED <<styles, background_color, highlight_color,
                                   default_style>>]_vars
    /\ [](\A i, j \in 1..Len(log) : log[i][1] = log[j][1] => log[i][2] = log[j][2])

C4_Witness ==
    /\ Loaded
    /\ \E i, j, k \in 1..Len(log) :
          /\ i < j /\ j < k
          /\ log[i][1] = log[k][1]
          /\ log[j][1] # log[i][1]
          /\ log[i][1] \in DOMAIN styles.map
          /\ log[i][2] = log[k][2]

\* C5: once the class is loaded, highlight_color is the string '#34424d'.
C5_HighlightColor == Loaded => highlight_color = PyStr("#34424d")

C5_Witness == Loaded /\ WasRead("highlight_color", PyStr("#34424d"))

\* C6: once the class is loaded, background_color is None and not a string.
C6_BackgroundColor ==
    Loaded => background_color = PyNone /\ background_color.type # "str"

C6_Witness == Loaded /\ WasRead("background_color", PyNone)

\* C7: once the class is loaded, default_style is the empty string.
C7_DefaultStyle == Loaded => default_style = PyStr("")

C7_Witness == Loaded /\ WasRead("default_style", PyStr(""))

\* A step that stores an item whose key the dict already holds.
Redeclares(k) ==
    /\ pc = "styles"
    /\ idx < Len(Declarations)
    /\ ItemKey(idx + 1) = k
    /\ HasKey(styles, k)
    /\ idx' = idx + 1

\* C8 as stated: Name.Class and Name.Builtin are each declared twice, and
\* the step that stores the second declaration changes the value of the key.
C8_SecondDeclarationChanges ==
    [][\A k \in {"Name.Class", "Name.Builtin"} :
          /\ Cardinality(Positions(k)) = 2
          /\ Redeclares(k) => styles'.map[k] # styles.map[k]]_vars

\* C8 amended: Name.Class and Name.Builtin are each declared twice; storing
\* the second declaration of Name.Class changes its value from '#dbba75' to
\* 'bold #dcdcdc', and storing the second declaration of Name.Builtin leaves
\* its value '#dbba75' as it was.
C8_OnlyClassChanges ==
    [][/\ \A k \in {"Name.Class", "Name.Builtin"} : Cardinality(Positions(k)) = 2
       /\ Redeclares("Name.Class") =>
              /\ styles.map["Name.Class"] = "#dbba75"
              /\ styles'.map["Name.Class"] = "bold #dcdcdc"
       /\ Redeclares("Name.Builtin") =>
              /\ styles.map["Name.Builtin"] = "#dbba75"
              /\ styles'.map["Name.Builtin"] = "#dbba75"]_vars

C8_Witness ==
    /\ pc = "styles"
    /\ idx >= LastPosition("Name.Class")
    /\ idx >= LastPosition("Name.Builtin")
    /\ styles.map["Name.Class"] = "bold #dcdcdc"
    /\ styles.map["Name.Builtin"] = "#dbba75"

\* C9: once the class is loaded, String.Escape has the style-spec of
\* String.Char and String.Interpol has the style-spec of Comment.
C9_LikeCharLikeComment ==
    Loaded =>
        /\ Getitem(styles, "String.Escape") = Getitem(styles, "String.Char")
        /\ Getitem(styles, "String.Interpol") = Getitem(styles, "Comment")

\* C10: the display has 28 items; once the class is loaded the mapping has
\* exactly 26 keys, Name.Class and Name.Builtin are the only keys declared
\* more than once, each exactly twice, and every value carries a color.
C10_Shape ==
    Loaded =>
        /\ idx = 28
        /\ Len(Declarations) = 28
        /\ Cardinality(DOMAIN styles.map) = 26
        /\ DOMAIN styles.map = DeclaredKeys
        /\ DuplicatedKeys = {"Name.Class", "Name.Builtin"}
        /\ \A k \in DuplicatedKeys : Cardinality(Positions(k)) = 2
        /\ \A k \in DOMAIN styles.map : styles.map[k] \in ColoredSpecs

C10_Witness ==
    /\ Loaded
    /\ Cardinality(DOMAIN styles.map) = 26
    /\ WasRead("Generic.Emph", PyStr("italic #e6e6e6"))

=============================================================================
